---- MODULE Spec2Model ----
(***************************************************************************)
(* Needleman-Wunsch global alignment CLI (main.cpp): the call               *)
(* alignment_algorithm(seq1, seq2, scr) followed by Alignment::calc_score,  *)
(* as main() runs them.  One step of the model is one loop iteration (or    *)
(* one loop exit) of the code.  C++ strings are 0-based, TLA+ sequences are *)
(* 1-based: the code's seq1[i - 1] is seq1[i] here.  The matrix is a        *)
(* function on the pairs <<row, col>>.  int is taken as a mathematical      *)
(* integer: with the score values and lengths of the model no sum comes     *)
(* near 2^31.                                                               *)
(***************************************************************************)
EXTENDS Integers, Sequences, FiniteSets, TLC

\* Longest input sequence of the model.
MaxLen == 2

\* The characters of the inputs: two nucleotides and the character the code
\* uses as its gap placeholder (the code does not reject it in an input).
GapChar == "-"
Symbols == {"A", "G", GapChar}

\* The values each field of a scoring schema is drawn from.
ScoreVals == {-1, 0, 1}

Seqs == UNION {[1..k -> Symbols] : k \in 0..MaxLen}

Scoring == [match : ScoreVals, mismatch : ScoreVals, gap : ScoreVals]

default_scoring == [match |-> 1, mismatch |-> -1, gap |-> 0]

VARIABLES
    seq1, seq2,   \* the two input strings
    scr,          \* the scoring schema
    mat,          \* matrix <int> mat
    i, j,         \* the loop cursors
    al1, al2,     \* the strings the traceback builds
    result,       \* the Alignment alignment_algorithm returns
    score,        \* main's int score = al.calc_score (scr_schema)
    writes,       \* history: how often each cell was assigned by a loop
    pc            \* the position in the code

vars == <<seq1, seq2, scr, mat, i, j, al1, al2, result, score, writes, pc>>

m == Len(seq1)
n == Len(seq2)

Cells == (0..m) \X (0..n)

EmptyMatrix == [c \in {} |-> 0]

NoResult == [seq1 |-> <<>>, seq2 |-> <<>>, score |-> EmptyMatrix]

Max(a, b) == IF a < b THEN b ELSE a

\* Faulty variant of Reverse: the strings are returned as the traceback built them,
\* back to front.
ReverseNoop(s) == s

RECURSIVE Reverse(_)
Reverse(s) == IF s = <<>> THEN <<>> ELSE Append(Reverse(Tail(s)), Head(s))

\* Faulty variant of calc_score: the test for '-' is missing, a column with a gap
\* counts as a mismatch.
RECURSIVE ScoreFromNoGapCase(_, _, _, _)
ScoreFromNoGapCase(s1, s2, sc, k) ==
    IF k > Len(s1) THEN 0
    ELSE (IF s1[k] = s2[k] THEN sc.match ELSE sc.mismatch)
             + ScoreFromNoGapCase(s1, s2, sc, k + 1)

calc_score_no_gap_case(al, sc) == ScoreFromNoGapCase(al.seq1, al.seq2, sc, 1)

\* Alignment::calc_score: the loop runs over the first string's length and
\* reads both strings at each index.
RECURSIVE ScoreFrom(_, _, _, _)
ScoreFrom(s1, s2, sc, k) ==
    IF k > Len(s1) THEN 0
    ELSE (IF s1[k] = s2[k] THEN sc.match
          ELSE IF s1[k] = GapChar \/ s2[k] = GapChar THEN sc.gap
          ELSE sc.mismatch) + ScoreFrom(s1, s2, sc, k + 1)

calc_score(al, sc) == ScoreFrom(al.seq1, al.seq2, sc, 1)

Init ==
    /\ seq1 \in Seqs
    /\ seq2 \in Seqs
    /\ scr \in Scoring
    /\ mat = EmptyMatrix
    /\ i = 0
    /\ j = 0
    /\ al1 = <<>>
    /\ al2 = <<>>
    /\ result = NoResult
    /\ score = 0
    /\ writes = EmptyMatrix
    /\ pc = "alloc"

\* generateAlignmentMatrix: matrix <int> mat (m + 1, vector <int> (n + 1, 0))
Alloc ==
    /\ pc = "alloc"
    /\ mat' = [c \in Cells |-> 0]
    /\ writes' = [c \in Cells |-> 0]
    /\ i' = 1
    /\ pc' = "init_col"
    /\ UNCHANGED <<seq1, seq2, scr, j, al1, al2, result, score>>

\* Faulty variant of BoundaryValue: the gap score is stored, not accumulated.
BoundaryValueFlat(prev) == scr.gap

\* The value generateAlignmentMatrix stores in a boundary cell: its
\* predecessor's value plus the gap score.
BoundaryValue(prev) == mat[prev] + scr.gap

\* for (i = 1; i <= m; ++i) mat[i][0] = mat[i - 1][0] + scr.gap
InitCol ==
    /\ pc = "init_col"
    /\ i <= m
    /\ mat' = [mat EXCEPT ![<<i, 0>>] = BoundaryValue(<<i - 1, 0>>)]
    /\ writes' = [writes EXCEPT ![<<i, 0>>] = @ + 1]
    /\ i' = i + 1
    /\ UNCHANGED <<seq1, seq2, scr, j, al1, al2, result, score, pc>>

InitColExit ==
    /\ pc = "init_col"
    /\ i > m
    /\ j' = 1
    /\ pc' = "init_row"
    /\ UNCHANGED <<seq1, seq2, scr, mat, i, al1, al2, result, score, writes>>

\* for (j = 1; j <= n; ++j) mat[0][j] = mat[0][j - 1] + scr.gap
InitRow ==
    /\ pc = "init_row"
    /\ j <= n
    /\ mat' = [mat EXCEPT ![<<0, j>>] = BoundaryValue(<<0, j - 1>>)]
    /\ writes' = [writes EXCEPT ![<<0, j>>] = @ + 1]
    /\ j' = j + 1
    /\ UNCHANGED <<seq1, seq2, scr, i, al1, al2, result, score, pc>>

\* return mat; back in alignment_algorithm the fill loops start at (1, 1)
InitRowExit ==
    /\ pc = "init_row"
    /\ j > n
    /\ i' = 1
    /\ j' = 1
    /\ pc' = "fill"
    /\ UNCHANGED <<seq1, seq2, scr, mat, al1, al2, result, score, writes>>

\* Faulty variant of Max3: the insertion candidate is left out of the maximum.
Max3NoIns(match, del, ins) == Max(match, del)

\* std::max (match, std::max (del, ins))
Max3(match, del, ins) == Max(match, Max(del, ins))

\* Faulty variant of FillTarget: the fill loop assigns mat[i - 1][j - 1], the index
\* it uses for the strings.
FillTargetOffByOne(r, c) == <<r - 1, c - 1>>

\* The cell the fill loop assigns in iteration (r, c).
FillTarget(r, c) == <<r, c>>

\* The cells the fill recurrence reads in iteration (r, c).
FillReads(r, c) == {<<r - 1, c - 1>>, <<r - 1, c>>, <<r, c - 1>>}

FillValue(r, c) ==
    LET match == mat[<<r - 1, c - 1>>]
                    + (IF seq1[r] = seq2[c] THEN scr.match ELSE scr.mismatch)
        del   == mat[<<r - 1, c>>] + scr.gap
        ins   == mat[<<r, c - 1>>] + scr.gap
    IN  Max3(match, del, ins)

\* The body of the inner fill loop, one cell.
FillCell ==
    /\ pc = "fill"
    /\ i <= m
    /\ j <= n
    /\ mat' = [mat EXCEPT ![FillTarget(i, j)] = FillValue(i, j)]
    /\ writes' = [writes EXCEPT ![FillTarget(i, j)] = @ + 1]
    /\ j' = j + 1
    /\ UNCHANGED <<seq1, seq2, scr, i, al1, al2, result, score, pc>>

\* The inner loop ends: ++i, j = 1.
FillNextRow ==
    /\ pc = "fill"
    /\ i <= m
    /\ j > n
    /\ i' = i + 1
    /\ j' = 1
    /\ UNCHANGED <<seq1, seq2, scr, mat, al1, al2, result, score, writes, pc>>

\* The outer loop ends: i = seq1.size(), j = seq2.size().
FillExit ==
    /\ pc = "fill"
    /\ i > m
    /\ i' = m
    /\ j' = n
    /\ pc' = "trace"
    /\ UNCHANGED <<seq1, seq2, scr, mat, al1, al2, result, score, writes>>

\* Faulty variant of Branch: the gap branches compare strictly with each other, so a
\* tie of the two above the diagonal takes no branch.
BranchStrict(eq, diag, up, left) ==
    IF eq \/ (diag >= up /\ diag >= left) THEN "diag"
    ELSE IF left > up /\ left >= diag THEN "left"
    ELSE IF up > left /\ up >= diag THEN "up"
    ELSE "none"

\* Faulty variant of Branch: the diagonal branch without the symbol-equality test.
BranchPureMax(eq, diag, up, left) ==
    IF diag >= up /\ diag >= left THEN "diag"
    ELSE IF left >= up /\ left >= diag THEN "left"
    ELSE IF up >= left /\ up >= diag THEN "up"
    ELSE "none"

\* The if / else if / else if of the traceback loop; "none" when no branch
\* is taken.
Branch(eq, diag, up, left) ==
    IF eq \/ (diag >= up /\ diag >= left) THEN "diag"
    ELSE IF left >= up /\ left >= diag THEN "left"
    ELSE IF up >= left /\ up >= diag THEN "up"
    ELSE "none"

\* The branch the traceback takes at the cursor (i, j), i > 0 and j > 0.
TraceBranch ==
    Branch(seq1[i] = seq2[j], mat[<<i - 1, j - 1>>], mat[<<i, j - 1>>], mat[<<i - 1, j>>])

\* One iteration of while (i > 0 && j > 0).
TraceStep ==
    /\ pc = "trace"
    /\ i > 0
    /\ j > 0
    /\ LET b == TraceBranch IN
       /\ al1' = CASE b = "diag" -> Append(al1, seq1[i])
                   [] b = "left" -> Append(al1, seq1[i])
                   [] b = "up"   -> Append(al1, GapChar)
                   [] OTHER      -> al1
       /\ al2' = CASE b = "diag" -> Append(al2, seq2[j])
                   [] b = "left" -> Append(al2, GapChar)
                   [] b = "up"   -> Append(al2, seq2[j])
                   [] OTHER      -> al2
       /\ i' = IF b \in {"diag", "left"} THEN i - 1 ELSE i
       /\ j' = IF b \in {"diag", "up"} THEN j - 1 ELSE j
    /\ UNCHANGED <<seq1, seq2, scr, mat, result, score, writes, pc>>

TraceExit ==
    /\ pc = "trace"
    /\ ~(i > 0 /\ j > 0)
    /\ pc' = "drain_i"
    /\ UNCHANGED <<seq1, seq2, scr, mat, i, j, al1, al2, result, score, writes>>

\* while (i > 0): push seq1[i - 1] and '-'
DrainI ==
    /\ pc = "drain_i"
    /\ i > 0
    /\ al1' = Append(al1, seq1[i])
    /\ al2' = Append(al2, GapChar)
    /\ i' = i - 1
    /\ UNCHANGED <<seq1, seq2, scr, mat, j, result, score, writes, pc>>

DrainIExit ==
    /\ pc = "drain_i"
    /\ ~(i > 0)
    /\ pc' = "drain_j"
    /\ UNCHANGED <<seq1, seq2, scr, mat, i, j, al1, al2, result, score, writes>>

\* Faulty variant of DrainJ: the second drain loop pushes nothing on al1.
DrainJNoPad ==
    /\ pc = "drain_j"
    /\ j > 0
    /\ al2' = Append(al2, seq2[j])
    /\ j' = j - 1
    /\ UNCHANGED <<seq1, seq2, scr, mat, i, al1, result, score, writes, pc>>

\* while (j > 0): push '-' and seq2[j - 1]
DrainJ ==
    /\ pc = "drain_j"
    /\ j > 0
    /\ al1' = Append(al1, GapChar)
    /\ al2' = Append(al2, seq2[j])
    /\ j' = j - 1
    /\ UNCHANGED <<seq1, seq2, scr, mat, i, result, score, writes, pc>>

DrainJExit ==
    /\ pc = "drain_j"
    /\ ~(j > 0)
    /\ pc' = "reverse"
    /\ UNCHANGED <<seq1, seq2, scr, mat, i, j, al1, al2, result, score, writes>>

\* std::reverse both strings; return {al1, al2, mat}
ReverseAndReturn ==
    /\ pc = "reverse"
    /\ al1' = Reverse(al1)
    /\ al2' = Reverse(al2)
    /\ result' = [seq1 |-> Reverse(al1), seq2 |-> Reverse(al2), score |-> mat]
    /\ pc' = "calc"
    /\ UNCHANGED <<seq1, seq2, scr, mat, i, j, score, writes>>

\* main: int score = al.calc_score (scr_schema)
CalcScore ==
    /\ pc = "calc"
    /\ score' = calc_score(result, scr)
    /\ pc' = "done"
    /\ UNCHANGED <<seq1, seq2, scr, mat, i, j, al1, al2, result, writes>>

Next ==
    \/ Alloc
    \/ InitCol
    \/ InitColExit
    \/ InitRow
    \/ InitRowExit
    \/ FillCell
    \/ FillNextRow
    \/ FillExit
    \/ TraceStep
    \/ TraceExit
    \/ DrainI
    \/ DrainIExit
    \/ DrainJ
    \/ DrainJExit
    \/ ReverseAndReturn
    \/ CalcScore

Spec == Init /\ [][Next]_vars

\* The program is one thread that runs to completion: a step that can be
\* taken is taken.
FairSpec == Spec /\ WF_vars(Next)

(***************************************************************************)
(* Definitions the properties are stated with.                              *)
(***************************************************************************)

\* A gapped alignment of the length-p prefix of seq1 with the length-q
\* prefix of seq2 is a sequence of columns <<r, c>>: r is the position of
\* the seq1 symbol in the column, c that of the seq2 symbol, 0 a gap; no
\* column is two gaps, and the symbols appear in order.
RECURSIVE Alignments(_, _)
Alignments(p, q) ==
    IF p = 0 /\ q = 0 THEN {<<>>}
    ELSE (IF p > 0 /\ q > 0
            THEN {Append(a, <<p, q>>) : a \in Alignments(p - 1, q - 1)} ELSE {})
         \cup (IF p > 0 THEN {Append(a, <<p, 0>>) : a \in Alignments(p - 1, q)} ELSE {})
         \cup (IF q > 0 THEN {Append(a, <<0, q>>) : a \in Alignments(p, q - 1)} ELSE {})

ColumnScore(col) ==
    IF col[1] = 0 \/ col[2] = 0 THEN scr.gap
    ELSE IF seq1[col[1]] = seq2[col[2]] THEN scr.match
    ELSE scr.mismatch

RECURSIVE AlignmentScore(_)
AlignmentScore(a) ==
    IF a = <<>> THEN 0 ELSE ColumnScore(Head(a)) + AlignmentScore(Tail(a))

\* The best score over all gapped alignments of the two prefixes.
OptScore(p, q) ==
    LET S == {AlignmentScore(a) : a \in Alignments(p, q)}
    IN  CHOOSE x \in S : \A y \in S : y <= x

StripGaps(s) == SelectSeq(s, LAMBDA ch : ch # GapChar)

NoGapChar(s) == \A k \in 1..Len(s) : s[k] # GapChar

HasGapChar(s) == \E k \in 1..Len(s) : s[k] = GapChar

Returned == pc \in {"calc", "done"}

\* C1: every cell (r, c) of the returned matrix is the best score over all
\* gapped alignments of the length-r prefix of seq1 with the length-c prefix
\* of seq2.
C1_MatrixIsOptimal ==
    pc = "done" => \A c \in Cells : result.score[c] = OptScore(c[1], c[2])

\* C1 witness: two symbols each, and the optimum of the whole inputs is
\* reached only with gap columns (the all-diagonal alignment scores less).
C1_Witness ==
    /\ pc = "done"
    /\ m = 2
    /\ n = 2
    /\ result.score[<<2, 2>>] = OptScore(2, 2)
    /\ AlignmentScore(<<<<1, 1>>, <<2, 2>>>>) < OptScore(2, 2)

\* C2: the score calc_score computes for the returned aligned pair equals
\* the bottom-right cell of the returned matrix.  Stated where the claim
\* already fails: for the inputs without '-' (the nucleotide strings the
\* program is written for) under the program's default scoring schema.
C2_ScoreEqualsCorner ==
    (pc = "done" /\ NoGapChar(seq1) /\ NoGapChar(seq2) /\ scr = default_scoring) =>
        score = result.score[<<m, n>>]

\* C3 as stated: deleting every '-' from the returned strings gives back
\* the inputs, whatever characters the inputs hold.
C3_StripGapsAnyInput ==
    pc = "done" =>
        /\ StripGaps(result.seq1) = seq1
        /\ StripGaps(result.seq2) = seq2

\* C3 amended: for an input that does not contain '-', deleting every '-'
\* from its returned aligned string gives back that input.
C3_StripGapsRestoresInput ==
    pc = "done" =>
        /\ NoGapChar(seq1) => StripGaps(result.seq1) = seq1
        /\ NoGapChar(seq2) => StripGaps(result.seq2) = seq2

\* C3 witness: inputs free of '-', of two different symbols, whose
\* alignment has gaps in both strings.
C3_Witness ==
    /\ pc = "done"
    /\ NoGapChar(seq1)
    /\ NoGapChar(seq2)
    /\ m = 2
    /\ seq1[1] # seq1[2]
    /\ HasGapChar(result.seq1)
    /\ HasGapChar(result.seq2)
    /\ StripGaps(result.seq1) = seq1
    /\ StripGaps(result.seq2) = seq2

\* C4: the two strings under construction always have the same length, and
\* the two returned strings have the same length, at least max(m, n).
C4_EqualLength ==
    /\ Len(al1) = Len(al2)
    /\ Returned =>
        /\ Len(result.seq1) = Len(result.seq2)
        /\ Len(result.seq1) >= Max(m, n)

\* C4 witness: a returned alignment longer than both inputs, and one of an
\* empty input.
C4_Witness ==
    /\ pc = "done"
    /\ Len(result.seq1) = Len(result.seq2)
    /\ \/ m > 0 /\ n > 0 /\ Len(result.seq1) > Max(m, n)
       \/ m = 0 /\ n = 2 /\ Len(result.seq1) = 2

\* The values the neighbour cells are drawn from when the branch choice is
\* examined on its own.
NeighbourVals == -2..2

LoopIteration ==
    \/ pc = "trace" /\ i > 0 /\ j > 0
    \/ pc = "drain_i" /\ i > 0
    \/ pc = "drain_j" /\ j > 0

\* C5: whatever the three neighbour values and the symbol pair, one branch
\* of the main loop is taken; every iteration of the main loop and of the
\* drain loops lowers i + j and keeps the cursor non-negative; the loops
\* end, and after them the cursor is (0, 0).
C5_TracebackTerminates ==
    /\ \A eq \in BOOLEAN, d \in NeighbourVals, u \in NeighbourVals, l \in NeighbourVals :
          Branch(eq, d, u, l) \in {"diag", "left", "up"}
    /\ [](pc = "trace" /\ i > 0 /\ j > 0 => TraceBranch \in {"diag", "left", "up"})
    /\ [][LoopIteration => i' + j' < i + j /\ i' >= 0 /\ j' >= 0]_vars
    /\ [](pc \in {"reverse", "calc", "done"} => i = 0 /\ j = 0)
    /\ <>(pc = "done")

\* C5 witness: the loops are over with the cursor at (0, 0), after main-loop
\* iterations and a drain (both strings got gaps, the inputs had none).
C5_Witness ==
    /\ pc = "reverse"
    /\ i = 0
    /\ j = 0
    /\ m = 2
    /\ n = 2
    /\ NoGapChar(seq1)
    /\ NoGapChar(seq2)
    /\ HasGapChar(al1)
    /\ HasGapChar(al2)

Scenario4 ==
    /\ seq1 = <<"A">>
    /\ seq2 = <<"G">>
    /\ scr = default_scoring

\* C6: in scenario 4 the traceback at cursor (1, 1) compares up = 0,
\* left = 0 and diag = -1, does not take the diagonal branch, and the
\* returned alignment has a gap instead of the column A/G.
C6_Scenario4GapMove ==
    Scenario4 =>
        /\ pc = "trace" /\ i = 1 /\ j = 1 =>
              /\ mat[<<1, 0>>] = 0
              /\ mat[<<0, 1>>] = 0
              /\ mat[<<0, 0>>] = -1
              /\ TraceBranch # "diag"
        /\ pc = "done" =>
              /\ HasGapChar(result.seq1) \/ HasGapChar(result.seq2)
              /\ ~(result.seq1 = <<"A">> /\ result.seq2 = <<"G">>)

BoundaryOk(mx) ==
    /\ \A r \in 0..m : mx[<<r, 0>>] = r * scr.gap
    /\ \A c \in 0..n : mx[<<0, c>>] = c * scr.gap

\* C7: once generateAlignmentMatrix has returned, row 0 and column 0 of the
\* matrix hold the multiples of gap, through the fill loop and after it, and
\* so do those of the returned matrix.
C7_BoundaryIsGapMultiples ==
    /\ pc \notin {"alloc", "init_col", "init_row"} => BoundaryOk(mat)
    /\ Returned => BoundaryOk(result.score)

\* C7 witness: a returned 3 x 3 matrix with a non-zero gap score.
C7_Witness ==
    /\ pc = "done"
    /\ m = 2
    /\ n = 2
    /\ scr.gap # 0
    /\ result.score[<<2, 0>>] = 2 * scr.gap
    /\ result.score[<<0, 2>>] = 2 * scr.gap

\* C8: an iteration of the main loop at a cursor whose two symbols are equal
\* is the diagonal move, whatever the neighbour cells hold.
C8_EqualSymbolsMoveDiagonally ==
    [][(pc = "trace" /\ i > 0 /\ j > 0 /\ seq1[i] = seq2[j]) =>
          /\ i' = i - 1
          /\ j' = j - 1
          /\ al1' = Append(al1, seq1[i])
          /\ al2' = Append(al2, seq2[j])]_vars

\* C8 witness: the diagonal move was just taken from (i + 1, j + 1) on equal
\* symbols although the diagonal neighbour was below both other neighbours
\* and the cell's value is above diagonal + match.
C8_Witness ==
    /\ pc = "trace"
    /\ i < m
    /\ j < n
    /\ seq1[i + 1] = seq2[j + 1]
    /\ seq1[i + 1] # GapChar
    /\ Len(al1) = 1
    /\ al1[1] = seq1[i + 1]
    /\ al2[1] = seq2[j + 1]
    /\ mat[<<i, j>>] < mat[<<i + 1, j>>]
    /\ mat[<<i, j>>] < mat[<<i, j + 1>>]
    /\ mat[<<i + 1, j + 1>>] > mat[<<i, j>>] + scr.match

IsSet(c) == c = <<0, 0>> \/ writes[c] >= 1

\* C9: no cell is assigned twice by the loops; a cell that has been set
\* keeps its value in every later step; the cells an iteration of the fill
\* loop reads have been set; and the returned matrix is the matrix as the
\* fill loop left it.
C9_WriteOnceMatrix ==
    /\ [](pc # "alloc" => \A c \in Cells : writes[c] <= 1)
    /\ [](pc = "fill" /\ i <= m /\ j <= n =>
             \A c \in FillReads(i, j) : c \in Cells /\ IsSet(c))
    /\ [](pc \in {"trace", "drain_i", "drain_j", "reverse"} =>
             \A c \in Cells : IsSet(c))
    /\ [][pc # "alloc" =>
             /\ DOMAIN mat' = DOMAIN mat
             /\ \A c \in Cells : IsSet(c) => mat'[c] = mat[c]]_vars
    /\ [](Returned => result.score = mat)

\* C9 witness: a returned 3 x 3 matrix, every cell but (0, 0) assigned once.
C9_Witness ==
    /\ pc = "done"
    /\ m = 2
    /\ n = 2
    /\ \A c \in Cells \ {<<0, 0>>} : writes[c] = 1
    /\ writes[<<0, 0>>] = 0
    /\ result.score = mat

\* C10: for inputs without '-', the score calc_score computes for the
\* returned alignment is at most the bottom-right cell of the matrix.
C10_ScoreAtMostCorner ==
    (pc = "done" /\ NoGapChar(seq1) /\ NoGapChar(seq2)) =>
        score <= result.score[<<m, n>>]

\* C10 witness: inputs without '-' whose computed score is below the corner.
C10_Witness ==
    /\ pc = "done"
    /\ NoGapChar(seq1)
    /\ NoGapChar(seq2)
    /\ m > 0
    /\ n > 0
    /\ score < result.score[<<m, n>>]

====
